---- MODULE Spec2Model ----
(***************************************************************************)
(* Booking-conflict detection and reservation lifecycle of the bookings    *)
(* service (bookings_service/app.py, bookings_service/database.py).        *)
(*                                                                         *)
(* The bookings table is a sequence of rows whose position is the          *)
(* autoincrement id (the service never deletes a row).  The users and      *)
(* rooms tables of the shared database file are the sets of ids present.   *)
(* Strings that the code inspects character by character (times, dates)    *)
(* are sequences of character codes, compared as Python and SQLite compare *)
(* text: lexicographically by code.                                        *)
(***************************************************************************)
EXTENDS Integers, Sequences, FiniteSets, TLC

VARIABLES bookings, users, rooms, now, pc, req, resp,
          room_table, all_rooms_cache, available_rooms_cache, local

\* The state of the rooms service (room_service/app.py, database.py): the
\* rows of the rooms table, the two module-level caches and the local
\* variables of the requests in flight.
roomvars == <<room_table, all_rooms_cache, available_rooms_cache, local>>

vars == <<bookings, users, rooms, now, pc, req, resp,
          room_table, all_rooms_cache, available_rooms_cache, local>>

(***************************************************************************)
(* Bounds of the model.                                                    *)
(***************************************************************************)
MaxBookings == 2
MaxClock == 1

Workers == {1, 2}

(***************************************************************************)
(* Text values, as sequences of code points: '0'..'9' are 48..57, ':' is  *)
(* 58, '-' is 45.                                                          *)
(***************************************************************************)
Empty == <<>>
T1000 == <<49, 48, 58, 48, 48>>
T1100 == <<49, 49, 58, 48, 48>>
T1200 == <<49, 50, 58, 48, 48>>
T9AM == <<57, 65, 77>>
T0000 == <<48, 48, 58, 48, 48>>
T2359 == <<50, 51, 58, 53, 57>>
T2500 == <<50, 53, 58, 48, 48>>
T1060 == <<49, 48, 58, 54, 48>>
T100 == <<49, 58, 48, 48>>
T10Dash00 == <<49, 48, 45, 48, 48>>
T10Colons0 == <<49, 48, 58, 58, 48>>
T12Fullwidth == <<65297, 65298, 58, 65296, 65296>>
T1Sup2 == <<49, 178, 58, 48, 48>>
D0101 == <<50, 48, 50, 53, 45, 48, 49, 45, 48, 49>>
D0102 == <<50, 48, 50, 53, 45, 48, 49, 45, 48, 50>>
D1301 == <<50, 48, 50, 53, 45, 49, 51, 45, 48, 49>>

NoneVal == "None"

\* Python's str < str and SQLite's text <: lexicographic by character code,
\* a proper prefix being smaller.
RECURSIVE StrLt(_, _)
StrLt(a, b) ==
    IF b = <<>> THEN FALSE
    ELSE IF a = <<>> THEN TRUE
    ELSE IF Head(a) < Head(b) THEN TRUE
    ELSE IF Head(a) > Head(b) THEN FALSE
    ELSE StrLt(Tail(a), Tail(b))

StrLe(a, b) == a = b \/ StrLt(a, b)

\* str.isdigit: every character is a digit and there is at least one.  Beside
\* '0'..'9' Unicode has digits that are decimal (fullwidth, 65296..65305) and
\* digits that are not (superscript two, 178).
DecimalChars == (48..57) \cup (65296..65305)
DigitChars == DecimalChars \cup {178}

IsDigits(s) == s # <<>> /\ \A i \in DOMAIN s : s[i] \in DigitChars

\* int(s) raises ValueError unless every character is a decimal digit.
IntRaises(s) == \E i \in DOMAIN s : s[i] \notin DecimalChars

DigitValue(c) == IF c >= 65296 THEN c - 65296 ELSE c - 48

RECURSIVE ToInt(_)
ToInt(s) ==
    IF s = <<>> THEN 0
    ELSE 10 * ToInt(SubSeq(s, 1, Len(s) - 1)) + DigitValue(s[Len(s)])

CountOf(s, c) == Cardinality({i \in DOMAIN s : s[i] = c})

\* valid_time(t): "true", "false", or "raise" when the tuple unpacking of
\* t.split(":") fails (more than one ':') or int() meets a digit that is
\* not decimal.  `and` evaluates left to right and stops at the first False.
valid_time(t) ==
    IF Len(t) # 5 \/ t[3] # 58 THEN "false"
    ELSE IF CountOf(t, 58) # 1 THEN "raise"
    ELSE LET hh == SubSeq(t, 1, 2)
             mm == SubSeq(t, 4, 5)
         IN  IF ~(IsDigits(hh) /\ IsDigits(mm)) THEN "false"
             ELSE IF IntRaises(hh) THEN "raise"
             ELSE IF ToInt(hh) > 23 THEN "false"
             ELSE IF IntRaises(mm) THEN "raise"
             ELSE IF ToInt(mm) <= 59 THEN "true" ELSE "false"

\* valid_date(d): as valid_time, for YYYY-MM-DD; month 1..12, day 1..31.
valid_date(d) ==
    IF Len(d) # 10 \/ d[5] # 45 \/ d[8] # 45 THEN "false"
    ELSE IF CountOf(d, 45) # 2 THEN "raise"
    ELSE LET yyyy == SubSeq(d, 1, 4)
             mm == SubSeq(d, 6, 7)
             dd == SubSeq(d, 9, 10)
         IN IF ~(IsDigits(yyyy) /\ IsDigits(mm) /\ IsDigits(dd)) THEN "false"
            ELSE IF IntRaises(yyyy) \/ IntRaises(mm) \/ IntRaises(dd) THEN "raise"
            ELSE IF 1 <= ToInt(mm) /\ ToInt(mm) <= 12 /\ 1 <= ToInt(dd) /\ ToInt(dd) <= 31
            THEN "true" ELSE "false"

(***************************************************************************)
(* Identities.  A caller is the (username, role) pair get_current_user     *)
(* yields; NoneVal stands for Python's None (header or token absent).      *)
(***************************************************************************)
UserIds == {1, 2}
RoomIds == {1, 2}

Username(u) == IF u = 1 THEN "alice" ELSE IF u = 2 THEN "bob" ELSE NoneVal

Caller(name, role) == [username |-> name, role |-> role]

Anonymous == Caller(NoneVal, NoneVal)
Admin == Caller("root", "admin")
Alice == Caller("alice", "regular")
Bob == Caller("bob", "regular")
Manager == Caller("fm", "facility_manager")
Auditor == Caller("aud", "auditor")

(***************************************************************************)
(* Storage layer (bookings_service/database.py).                           *)
(***************************************************************************)
NoRow == [id |-> 0]

Row(id, user_id, room_id, date, start_time, end_time, status, created_at, updated_at) ==
    [id |-> id, user_id |-> user_id, room_id |-> room_id, date |-> date,
     start_time |-> start_time, end_time |-> end_time, status |-> status,
     created_at |-> created_at, updated_at |-> updated_at]

get_booking_by_id(bs, booking_id) ==
    IF booking_id \in DOMAIN bs THEN bs[booking_id] ELSE NoRow

find_user_by_id(us, user_id) ==
    IF user_id \in us THEN [id |-> user_id, username |-> Username(user_id)] ELSE NoRow

find_room_by_id(rs, room_id) ==
    IF room_id \in rs THEN [id |-> room_id] ELSE NoRow

\* The where clause with its two time parameters bound the other way round.
ConflictsSwapped(b, room_id, date, start_time, end_time) ==
    /\ b.room_id = room_id
    /\ b.date = date
    /\ b.status = "active"
    /\ StrLt(b.start_time, start_time)
    /\ StrLt(end_time, b.end_time)

\* The where clause without its status filter.
ConflictsAnyStatus(b, room_id, date, start_time, end_time) ==
    /\ b.room_id = room_id
    /\ b.date = date
    /\ StrLt(b.start_time, end_time)
    /\ StrLt(start_time, b.end_time)

\* The where clause with <= in place of <: windows that only touch collide.
ConflictsInclusive(b, room_id, date, start_time, end_time) ==
    /\ b.room_id = room_id
    /\ b.date = date
    /\ b.status = "active"
    /\ StrLe(b.start_time, end_time)
    /\ StrLe(start_time, b.end_time)

\* The where clause with its first comparison written <=: a window that
\* ends where a stored one starts collides.
ConflictsStartInclusive(b, room_id, date, start_time, end_time) ==
    /\ b.room_id = room_id
    /\ b.date = date
    /\ b.status = "active"
    /\ StrLe(b.start_time, end_time)
    /\ StrLt(start_time, b.end_time)

\* The where clause of is_room_available for one stored row.
Conflicts(b, room_id, date, start_time, end_time) ==
    /\ b.room_id = room_id
    /\ b.date = date
    /\ b.status = "active"
    /\ StrLt(b.start_time, end_time)
    /\ StrLt(start_time, b.end_time)

is_room_available(bs, room_id, date, start_time, end_time) ==
    ~ \E i \in DOMAIN bs : Conflicts(bs[i], room_id, date, start_time, end_time)

\* insert into bookings: status defaults to 'active', both timestamps to
\* current_timestamp, the id is the next autoincrement value.
create_booking(bs, user_id, room_id, date, start_time, end_time, t) ==
    Append(bs, Row(Len(bs) + 1, user_id, room_id, date, start_time, end_time,
                   "active", t, t))

\* With pragma foreign_keys = on the insert raises IntegrityError when the
\* user or the room row is absent.
ForeignKeysHold(us, rs, user_id, room_id) == user_id \in us /\ room_id \in rs

\* An update statement that also sets status = 'updated'.
update_bookingMarksUpdated(bs, booking_id, date, start_time, end_time, t) ==
    [i \in DOMAIN bs |->
        IF bs[i].id = booking_id
        THEN [bs[i] EXCEPT !.date = date, !.start_time = start_time,
                           !.end_time = end_time, !.updated_at = t,
                           !.status = "updated"]
        ELSE bs[i]]

\* An update statement that sets updated_at only.
update_bookingStampOnly(bs, booking_id, date, start_time, end_time, t) ==
    [i \in DOMAIN bs |->
        IF bs[i].id = booking_id THEN [bs[i] EXCEPT !.updated_at = t] ELSE bs[i]]

\* An update statement without its where clause: every row is rewritten.
update_bookingNoWhere(bs, booking_id, date, start_time, end_time, t) ==
    [i \in DOMAIN bs |->
        [bs[i] EXCEPT !.date = date, !.start_time = start_time,
                      !.end_time = end_time, !.updated_at = t]]

update_booking(bs, booking_id, date, start_time, end_time, t) ==
    [i \in DOMAIN bs |->
        IF bs[i].id = booking_id
        THEN [bs[i] EXCEPT !.date = date, !.start_time = start_time,
                           !.end_time = end_time, !.updated_at = t]
        ELSE bs[i]]

\* A cancellation that deletes the row instead of marking it.
cancel_bookingDeletesRow(bs, booking_id, t) ==
    SelectSeq(bs, LAMBDA b : b.id # booking_id)

cancel_booking(bs, booking_id, t) ==
    [i \in DOMAIN bs |->
        IF bs[i].id = booking_id
        THEN [bs[i] EXCEPT !.status = "cancelled", !.updated_at = t]
        ELSE bs[i]]

\* order by date, start_time: every order of the rows that is sorted by that
\* key (SQL leaves the order of equal keys open).
KeyLe(a, b) == StrLt(a.date, b.date) \/ (a.date = b.date /\ StrLe(a.start_time, b.start_time))

OrderedRows(bs, ids) ==
    {s \in [1..Cardinality(ids) -> {bs[i] : i \in ids}] :
        /\ \A i \in ids : \E k \in DOMAIN s : s[k] = bs[i]
        /\ \A j, k \in DOMAIN s : j < k => KeyLe(s[j], s[k])}

get_all_bookings(bs) == OrderedRows(bs, DOMAIN bs)

\* The per-user query with its parameter compared to the id column.
get_bookings_for_userById(bs, user_id) ==
    OrderedRows(bs, {i \in DOMAIN bs : bs[i].id = user_id})

get_bookings_for_user(bs, user_id) ==
    OrderedRows(bs, {i \in DOMAIN bs : bs[i].user_id = user_id})

(***************************************************************************)
(* Requests and responses (bookings_service/app.py).                       *)
(* A missing or empty JSON field is 0 for the ids and the empty string for *)
(* the texts: require_fields treats both as absent.                        *)
(***************************************************************************)
Request(op, caller, booking_id, user_id, room_id, date, start_time, end_time) ==
    [op |-> op, caller |-> caller, booking_id |-> booking_id, user_id |-> user_id,
     room_id |-> room_id, date |-> date, start_time |-> start_time,
     end_time |-> end_time]

NoRequest == Request("none", Anonymous, 0, 0, 0, Empty, Empty, Empty)

Response(code, msg) ==
    [code |-> code, msg |-> msg, booking_id |-> 0, rows |-> <<>>, available |-> FALSE]

NoResponse == Response(0, "none")

\* An exception no handler catches: Flask answers 500.
Unhandled == Response(500, "unhandled exception")

Stop(r) == [go |-> FALSE, resp |-> r]
Go == [go |-> TRUE, resp |-> NoResponse]

\* A decorator that only asks for some role, not for an allowed one.
require_rolesAnyRole(allowed, role) ==
    IF role = NoneVal THEN Stop(Response(401, "missing X-User-Role header"))
    ELSE Go

\* The require_roles decorator: runs before the view function.
require_roles(allowed, role) ==
    IF role = NoneVal THEN Stop(Response(401, "missing X-User-Role header"))
    ELSE IF role \notin allowed THEN Stop(Response(403, "forbidden: requires one of roles"))
    ELSE Go

\* require_fields(data, needed) is not None: some id or some text is absent.
require_fields(ids, texts) ==
    (\E i \in DOMAIN ids : ids[i] = 0) \/ (\E i \in DOMAIN texts : texts[i] = Empty)

\* The format and ordering checks shared by create, update and availability:
\* `not valid_time(st) or not valid_time(et)`, then valid_date, then et <= st.
CheckSchedule(date, start_time, end_time) ==
    IF valid_time(start_time) = "raise" THEN Stop(Unhandled)
    ELSE IF valid_time(start_time) = "false" THEN Stop(Response(400, "invalid time format HH:MM"))
    ELSE IF valid_time(end_time) = "raise" THEN Stop(Unhandled)
    ELSE IF valid_time(end_time) = "false" THEN Stop(Response(400, "invalid time format HH:MM"))
    ELSE IF valid_date(date) = "raise" THEN Stop(Unhandled)
    ELSE IF valid_date(date) = "false" THEN Stop(Response(400, "invalid date format YYYY-MM-DD"))
    ELSE IF StrLe(end_time, start_time) THEN Stop(Response(400, "end_time must be after start_time"))
    ELSE Go

\* make_booking_route up to and including the availability check.
CreateCheck(r, bs, us, rs) ==
    LET auth == require_roles({"admin", "regular", "facility_manager"}, r.caller.role)
        user_row == find_user_by_id(us, r.user_id)
        sched == CheckSchedule(r.date, r.start_time, r.end_time)
    IN  IF ~auth.go THEN auth
        ELSE IF r.caller.role = "regular" /\ user_row = NoRow
            THEN Stop(Response(404, "user not found"))
        ELSE IF r.caller.role = "regular" /\ user_row.username # r.caller.username
            THEN Stop(Response(403, "forbidden: you can only create bookings for yourself"))
        ELSE IF require_fields(<<r.user_id, r.room_id>>, <<r.date, r.start_time, r.end_time>>)
            THEN Stop(Response(400, "missing"))
        ELSE IF ~sched.go THEN sched
        ELSE IF find_room_by_id(rs, r.room_id) = NoRow
            THEN Stop(Response(404, "room not found"))
        ELSE IF ~is_room_available(bs, r.room_id, r.date, r.start_time, r.end_time)
            THEN Stop(Response(409, "room is not available for this time slot"))
        ELSE Go

\* A create whose insert is guarded by a second availability check.
CreateWriteRechecked(r, bs, us, rs, t) ==
    IF ~is_room_available(bs, r.room_id, r.date, r.start_time, r.end_time)
    THEN [bookings |-> bs,
          resp |-> Response(409, "room is not available for this time slot")]
    ELSE [bookings |-> create_booking(bs, r.user_id, r.room_id, r.date,
                                      r.start_time, r.end_time, t),
          resp |-> [Response(201, "booking created") EXCEPT !.booking_id = Len(bs) + 1]]

\* make_booking_route from create_booking on.
CreateWrite(r, bs, us, rs, t) ==
    IF ~ForeignKeysHold(us, rs, r.user_id, r.room_id)
    THEN [bookings |-> bs, resp |-> Unhandled]
    ELSE [bookings |-> create_booking(bs, r.user_id, r.room_id, r.date,
                                      r.start_time, r.end_time, t),
          resp |-> [Response(201, "booking created") EXCEPT !.booking_id = Len(bs) + 1]]

\* An update route that does not look the booking's room up.
UpdateCheckNoRoom(r, bs, us, rs) ==
    LET auth == require_roles({"admin", "regular"}, r.caller.role)
        row == get_booking_by_id(bs, r.booking_id)
        booking_user == find_user_by_id(us, row.user_id)
        sched == CheckSchedule(r.date, r.start_time, r.end_time)
    IN  IF ~auth.go THEN auth
        ELSE IF row = NoRow THEN Stop(Response(404, "booking not found"))
        ELSE IF booking_user = NoRow THEN Stop(Response(404, "booking user not found"))
        ELSE IF r.caller.role # "admin" /\ r.caller.role = "regular"
                /\ r.caller.username # booking_user.username
            THEN Stop(Response(403, "forbidden: you can only update your own booking"))
        ELSE IF r.caller.role # "admin" /\ r.caller.role # "regular"
            THEN Stop(Response(403, "forbidden: your role cannot modify bookings"))
        ELSE IF require_fields(<<>>, <<r.date, r.start_time, r.end_time>>)
            THEN Stop(Response(400, "missing"))
        ELSE IF ~sched.go THEN sched
        ELSE IF ~is_room_available(bs, row.room_id, r.date, r.start_time, r.end_time)
            THEN Stop(Response(409, "room's not available for this updated time slot"))
        ELSE Go

\* update_booking_route up to and including the availability check.
UpdateCheck(r, bs, us, rs) ==
    LET auth == require_roles({"admin", "regular"}, r.caller.role)
        row == get_booking_by_id(bs, r.booking_id)
        booking_user == find_user_by_id(us, row.user_id)
        sched == CheckSchedule(r.date, r.start_time, r.end_time)
    IN  IF ~auth.go THEN auth
        ELSE IF row = NoRow THEN Stop(Response(404, "booking not found"))
        ELSE IF booking_user = NoRow THEN Stop(Response(404, "booking user not found"))
        ELSE IF r.caller.role # "admin" /\ r.caller.role = "regular"
                /\ r.caller.username # booking_user.username
            THEN Stop(Response(403, "forbidden: you can only update your own booking"))
        ELSE IF r.caller.role # "admin" /\ r.caller.role # "regular"
            THEN Stop(Response(403, "forbidden: your role cannot modify bookings"))
        ELSE IF require_fields(<<>>, <<r.date, r.start_time, r.end_time>>)
            THEN Stop(Response(400, "missing"))
        ELSE IF ~sched.go THEN sched
        ELSE IF find_room_by_id(rs, row.room_id) = NoRow
            THEN Stop(Response(404, "room not found"))
        ELSE IF ~is_room_available(bs, row.room_id, r.date, r.start_time, r.end_time)
            THEN Stop(Response(409, "room's not available for this updated time slot"))
        ELSE Go

\* update_booking_route from update_booking on.
UpdateWrite(r, bs, t) ==
    [bookings |-> update_booking(bs, r.booking_id, r.date, r.start_time, r.end_time, t),
     resp |-> Response(200, "booking updated")]

\* A cancel route without the already-cancelled branch.
CancelCheckAlwaysWrites(r, bs, us) ==
    LET auth == require_roles({"admin", "regular"}, r.caller.role)
        row == get_booking_by_id(bs, r.booking_id)
        booking_user == find_user_by_id(us, row.user_id)
    IN  IF ~auth.go THEN auth
        ELSE IF row = NoRow THEN Stop(Response(404, "booking not found"))
        ELSE IF r.caller.role = "regular" /\ booking_user = NoRow
            THEN Stop(Unhandled)
        ELSE IF r.caller.role = "regular" /\ booking_user.username # r.caller.username
            THEN Stop(Response(403, "forbidden: you can only cancel your own bookings"))
        ELSE Go

\* A cancel route that skips the ownership comparison.
CancelCheckAnyOwner(r, bs, us) ==
    LET auth == require_roles({"admin", "regular"}, r.caller.role)
        row == get_booking_by_id(bs, r.booking_id)
    IN  IF ~auth.go THEN auth
        ELSE IF row = NoRow THEN Stop(Response(404, "booking not found"))
        ELSE IF row.status = "cancelled"
            THEN Stop(Response(200, "booking already cancelled"))
        ELSE Go

\* cancel_booking_route up to the call of cancel_booking.
CancelCheck(r, bs, us) ==
    LET auth == require_roles({"admin", "regular"}, r.caller.role)
        row == get_booking_by_id(bs, r.booking_id)
        booking_user == find_user_by_id(us, row.user_id)
    IN  IF ~auth.go THEN auth
        ELSE IF row = NoRow THEN Stop(Response(404, "booking not found"))
        ELSE IF r.caller.role = "regular" /\ booking_user = NoRow
            THEN Stop(Unhandled)
        ELSE IF r.caller.role = "regular" /\ booking_user.username # r.caller.username
            THEN Stop(Response(403, "forbidden: you can only cancel your own bookings"))
        ELSE IF row.status = "cancelled"
            THEN Stop(Response(200, "booking already cancelled"))
        ELSE Go

\* cancel_booking_route from cancel_booking on.
CancelWrite(r, bs, t) ==
    [bookings |-> cancel_booking(bs, r.booking_id, t),
     resp |-> Response(200, "booking cancelled")]

\* check_room_availability_route: no decorator, no identity check.
AvailabilityCheck(r, bs, rs) ==
    LET sched == CheckSchedule(r.date, r.start_time, r.end_time)
    IN  IF find_room_by_id(rs, r.room_id) = NoRow
            THEN Response(404, "room not found")
        ELSE IF r.date = Empty \/ r.start_time = Empty \/ r.end_time = Empty
            THEN Response(400, "date, start_time, end_time are required")
        ELSE IF ~sched.go THEN sched.resp
        ELSE [Response(200, "availability") EXCEPT
                !.available = is_room_available(bs, r.room_id, r.date,
                                                r.start_time, r.end_time)]

\* A list-all route that also admits the role regular.
ListAllForRegular(r, bs) ==
    LET auth == require_roles({"admin", "facility_manager", "auditor", "regular"},
                              r.caller.role)
    IN  IF ~auth.go THEN {auth.resp}
        ELSE {[Response(200, "bookings") EXCEPT !.rows = rows] : rows \in get_all_bookings(bs)}

\* list_all_bookings: the possible responses.
ListAll(r, bs) ==
    LET auth == require_roles({"admin", "facility_manager", "auditor"}, r.caller.role)
    IN  IF ~auth.go THEN {auth.resp}
        ELSE {[Response(200, "bookings") EXCEPT !.rows = rows] : rows \in get_all_bookings(bs)}

\* A list-for-user route without the username comparison.
ListForUserAnyRegular(r, bs, us) ==
    LET auth == require_roles({"admin", "facility_manager", "auditor", "regular"},
                              r.caller.role)
        user_row == find_user_by_id(us, r.user_id)
    IN  IF ~auth.go THEN {auth.resp}
        ELSE IF user_row = NoRow THEN {Response(404, "user not found")}
        ELSE {[Response(200, "bookings") EXCEPT !.rows = rows] :
                rows \in get_bookings_for_user(bs, r.user_id)}

\* get_bookings_for_user_route: the possible responses.
ListForUser(r, bs, us) ==
    LET auth == require_roles({"admin", "facility_manager", "auditor", "regular"},
                              r.caller.role)
        user_row == find_user_by_id(us, r.user_id)
    IN  IF ~auth.go THEN {auth.resp}
        ELSE IF user_row = NoRow THEN {Response(404, "user not found")}
        ELSE IF r.caller.role = "regular" /\ r.caller.username # user_row.username
            THEN {Response(403, "forbidden: you can only view your own bookings")}
        ELSE {[Response(200, "bookings") EXCEPT !.rows = rows] :
                rows \in get_bookings_for_user(bs, r.user_id)}

(***************************************************************************)
(* Request inputs.                                                         *)
(***************************************************************************)
Callers == {Anonymous, Admin, Alice, Bob, Manager, Auditor}
Owners == {Admin, Alice, Bob}
Dates == {D0101, D0102}
Times == {T1000, T1100, T1200}
Windows == {w \in Times \X Times : StrLt(w[1], w[2])}
BookingIds == 1..(MaxBookings + 1)

\* Well-formed create bodies from every caller who can own or manage a
\* booking, one body from the other callers, and one body per defect.
CreateRequests ==
    {Request("create", c, 0, u, k, d, w[1], w[2]) :
        c \in Owners, u \in UserIds, k \in RoomIds, d \in Dates, w \in Windows}
    \cup {Request("create", c, 0, 1, 1, D0101, T1000, T1100) : c \in Callers}
    \cup {Request("create", c, 0, 0, 1, D0101, T1000, T1100) : c \in {Admin, Alice}}
    \cup {Request("create", c, 0, 1, 1, D0101, Empty, T1100) : c \in {Admin, Alice}}
    \cup {Request("create", c, 0, 1, 1, D0101, T9AM, T1100) : c \in {Admin, Alice}}
    \cup {Request("create", c, 0, 1, 1, D1301, T1000, T1100) : c \in {Admin, Alice}}
    \cup {Request("create", c, 0, 1, 1, D0101, T1100, T1100) : c \in {Admin, Alice}}
    \cup {Request("create", c, 0, 1, 1, D0101, T1200, T1100) : c \in {Admin, Alice}}
    \cup {Request("create", c, 0, 1, 3, D0101, T1000, T1100) : c \in {Admin, Alice}}
    \cup {Request("create", c, 0, 3, 1, D0101, T1000, T1100) : c \in {Admin, Alice}}

UpdateRequests ==
    {Request("update", c, b, 0, 0, d, w[1], w[2]) :
        c \in Owners, b \in BookingIds, d \in Dates, w \in Windows}
    \cup {Request("update", c, 1, 0, 0, D0101, T1000, T1100) : c \in Callers}
    \cup {Request("update", c, 1, 0, 0, D0101, Empty, T1100) : c \in {Admin, Alice}}
    \cup {Request("update", c, 1, 0, 0, D0101, T1000, T9AM) : c \in {Admin, Alice}}
    \cup {Request("update", c, 1, 0, 0, D1301, T1000, T1100) : c \in {Admin, Alice}}
    \cup {Request("update", c, 1, 0, 0, D0101, T1100, T1100) : c \in {Admin, Alice}}

CancelRequests ==
    {Request("cancel", c, b, 0, 0, Empty, Empty, Empty) : c \in Callers, b \in BookingIds}

ListRequests ==
    {Request("list_all", c, 0, 0, 0, Empty, Empty, Empty) : c \in Callers}
    \cup {Request("list_user", c, 0, u, 0, Empty, Empty, Empty) :
            c \in Callers, u \in UserIds \cup {3}}

AvailabilityRequests ==
    {Request("availability", c, 0, 0, k, d, w[1], w[2]) :
        c \in {Anonymous, Alice}, k \in RoomIds, d \in Dates, w \in Windows}
    \cup {Request("availability", Alice, 0, 0, 3, D0101, T1000, T1100),
          Request("availability", Alice, 0, 0, 1, Empty, T1000, T1100),
          Request("availability", Alice, 0, 0, 1, D0101, T9AM, T1100),
          Request("availability", Alice, 0, 0, 1, D0101, T1100, T1000)}

Requests ==
    CreateRequests \cup UpdateRequests \cup CancelRequests \cup ListRequests
    \cup AvailabilityRequests

(***************************************************************************)
(* The rooms service (room_service/app.py, room_service/database.py).      *)
(* The rooms table is the set of its rows (select * from rooms has no      *)
(* order by) and the last autoincrement id handed out.  A list that may be *)
(* None is the empty sequence for None and a one-element sequence holding  *)
(* the set of rows otherwise.  A missing JSON field or query argument is   *)
(* 0 for the capacity, None for a name, equipment, location or status, and *)
(* the empty text for min_capacity; no modelled request carries a location *)
(* or equipment_contains filter.                                           *)
(***************************************************************************)
MaxRoomId == 3
MaxTime == 45
TickSeconds == {15, 30}

ROOMS_CACHE_TTL == 30

T10 == <<49, 48>>
NoneText == <<78, 111, 110, 101>>

RoomRow(id, name, capacity, equipment, location, status) ==
    [id |-> id, name |-> name, capacity |-> capacity, equipment |-> equipment,
     location |-> location, status |-> status]

\* The two rooms the bookings refer to: created through the service, after
\* which both caches are empty.
InitialRooms ==
    [rows |-> {RoomRow(1, "A", 4, "tv", "floor 1", "available"),
               RoomRow(2, "B", 20, "projector", "floor 3", "booked")},
     seq |-> 2]

RoomIdsOf(tbl) == {r.id : r \in tbl.rows}

find_room_by_name(tbl, name) ==
    IF \E r \in tbl.rows : r.name = name
    THEN CHOOSE r \in tbl.rows : r.name = name
    ELSE NoRow

list_all_rooms(tbl) == tbl.rows

\* insert into rooms: the id is the next autoincrement value.
insert_room(tbl, name, capacity, equipment, location, status) ==
    [rows |-> tbl.rows \cup {RoomRow(tbl.seq + 1, name, capacity, equipment,
                                      location, status)},
     seq |-> tbl.seq + 1]

update_room_row(tbl, name, new_capacity, new_equipment, new_location, new_status) ==
    [tbl EXCEPT !.rows =
        {IF r.name = name
         THEN RoomRow(r.id, r.name, new_capacity, new_equipment, new_location, new_status)
         ELSE r : r \in tbl.rows}]

delete_room_row(tbl, name) ==
    [tbl EXCEPT !.rows = {r \in tbl.rows : r.name # name}]

\* min_capacity is <<>> for None and <<n>> for the integer n.
search_available_rooms(tbl, min_capacity) ==
    {r \in tbl.rows :
        /\ r.status = "available"
        /\ min_capacity # <<>> => r.capacity >= min_capacity[1]}

\* str() of a non-negative integer.
RECURSIVE Decimal(_)
Decimal(n) == IF n < 10 THEN <<48 + n>> ELSE Decimal(n \div 10) \o <<48 + (n % 10)>>

\* f"{min_capacity}|{location}|{equipment_contains}" with both text filters
\* None.
availability_cache_key(min_capacity) ==
    (IF min_capacity = <<>> THEN NoneText ELSE Decimal(min_capacity[1]))
    \o <<124>> \o NoneText \o <<124>> \o NoneText

NoData == <<>>
EmptyAllRoomsCache == [data |-> NoData, expires_at |-> 0]
EmptyAvailableRoomsCache == [k \in {} |-> EmptyAllRoomsCache]

\* The test at the top of get_cached_all_rooms.
AllRoomsCached(cache, t) == cache.data # NoData /\ cache.expires_at > t

\* The test at the top of get_cached_available_rooms.
AvailableRoomsCached(cache, key, t) ==
    key \in DOMAIN cache /\ cache[key].expires_at > t

\* An invalidation that forgets the per-query cache.
invalidate_rooms_cacheAllOnly(all_cache, available_cache) ==
    [all |-> EmptyAllRoomsCache, available |-> available_cache]

invalidate_rooms_cache(all_cache, available_cache) ==
    [all |-> EmptyAllRoomsCache, available |-> EmptyAvailableRoomsCache]

RoomRequest(op, caller, name, capacity, equipment, location, status, min_capacity) ==
    [op |-> op, caller |-> caller, name |-> name, capacity |-> capacity,
     equipment |-> equipment, location |-> location, status |-> status,
     min_capacity |-> min_capacity]

RoomResponse(code, msg, data) == [code |-> code, msg |-> msg, data |-> data]

NoLocal == [now |-> 0, data |-> {}, existing |-> NoRow]

RoomWrites == {"create_room", "update_room", "delete_room"}
RoomReads == {"get_all_rooms", "get_available_rooms"}

\* create_room, update_room and delete_room up to the first statement that
\* writes: the decorator, the presence checks and find_room_by_name.
RoomCheck(r, tbl) ==
    LET auth == require_roles({"admin", "facility_manager"}, r.caller.role)
        existing == find_room_by_name(tbl, r.name)
        ok == [go |-> TRUE, resp |-> NoResponse, existing |-> existing]
        no(a) == [go |-> FALSE, resp |-> a, existing |-> NoRow]
    IN  IF ~auth.go THEN no(RoomResponse(auth.resp.code, auth.resp.msg, {}))
        ELSE IF r.op = "create_room"
            THEN IF r.name = NoneVal \/ r.capacity = 0 \/ r.equipment = NoneVal
                    \/ r.location = NoneVal
                    THEN no(RoomResponse(400, "missing", {}))
                 ELSE IF existing # NoRow
                    THEN no(RoomResponse(400, "room name already exists", {}))
                 ELSE ok
        ELSE IF existing = NoRow THEN no(RoomResponse(404, "room not found", {}))
        ELSE ok

\* The statement that writes and what the handler makes of its result: the
\* insert raises IntegrityError on a name that is taken (name is unique),
\* update_room_row returns None and delete_room_row returns 0 when the row
\* is gone.  existing is the row the handler read before.
RoomWrite(r, tbl, existing) ==
    LET gone == find_room_by_name(tbl, r.name) = NoRow
        fail(a) == [go |-> FALSE, resp |-> a, table |-> tbl]
    IN  CASE r.op = "create_room" ->
                IF ~gone
                THEN fail(RoomResponse(500, "unhandled exception", {}))
                ELSE [go |-> TRUE, resp |-> RoomResponse(201, "room created", {}),
                      table |-> insert_room(tbl, r.name, r.capacity, r.equipment,
                                             r.location,
                                             IF r.status = NoneVal THEN "available"
                                             ELSE r.status)]
          [] r.op = "update_room" ->
                IF gone
                THEN fail(RoomResponse(500, "could not update room", {}))
                ELSE [go |-> TRUE, resp |-> RoomResponse(200, "room updated", {}),
                      table |-> update_room_row(tbl, r.name,
                          IF r.capacity # 0 THEN r.capacity ELSE existing.capacity,
                          IF r.equipment # NoneVal THEN r.equipment ELSE existing.equipment,
                          IF r.location # NoneVal THEN r.location ELSE existing.location,
                          IF r.status # NoneVal THEN r.status ELSE existing.status)]
          [] r.op = "delete_room" ->
                IF gone
                THEN fail(RoomResponse(500, "nothing deleted", {}))
                ELSE [go |-> TRUE, resp |-> RoomResponse(200, "room deleted", {}),
                      table |-> delete_room_row(tbl, r.name)]

\* int(min_capacity) of get_available_rooms: None stays None.
MinCapacity(r) == IF r.min_capacity = Empty THEN <<>> ELSE <<ToInt(r.min_capacity)>>

(***************************************************************************)
(* State machine.  Each worker takes a request, runs its handler and       *)
(* returns the response.                                                   *)
(***************************************************************************)
Init ==
    /\ bookings = <<>>
    /\ users = UserIds
    /\ rooms = RoomIds
    /\ now = 0
    /\ pc = [w \in Workers |-> "idle"]
    /\ req = [w \in Workers |-> NoRequest]
    /\ resp = [w \in Workers |-> NoResponse]
    /\ room_table = InitialRooms
    /\ all_rooms_cache = EmptyAllRoomsCache
    /\ available_rooms_cache = EmptyAvailableRoomsCache
    /\ local = [w \in Workers |-> NoLocal]

\* Bookings stored or about to be stored by a request in flight.
Pending == Cardinality({w \in Workers : pc[w] \in {"received", "checked"} /\ req[w].op = "create"})

Receive(w, R) ==
    /\ pc[w] = "idle"
    /\ \E r \in R :
        /\ r.op = "create" => Len(bookings) + Pending < MaxBookings
        /\ req' = [req EXCEPT ![w] = r]
    /\ pc' = [pc EXCEPT ![w] = "received"]
    /\ UNCHANGED <<bookings, users, rooms, now, resp>>
    /\ UNCHANGED roomvars

\* The part of a handler before its write.
Check(r, bs, us, rs) ==
    CASE r.op = "create" -> CreateCheck(r, bs, us, rs)
      [] r.op = "update" -> UpdateCheck(r, bs, us, rs)
      [] r.op = "cancel" -> CancelCheck(r, bs, us)

\* The write of a handler and its response.
Write(r, bs, us, rs, t) ==
    CASE r.op = "create" -> CreateWrite(r, bs, us, rs, t)
      [] r.op = "update" -> UpdateWrite(r, bs, t)
      [] r.op = "cancel" -> CancelWrite(r, bs, t)

Mutating == {"create", "update", "cancel"}

\* A handler that writes first and runs its checks afterwards.
HandleWriteBeforeCheck(w) ==
    /\ pc[w] = "received"
    /\ req[w].op \in Mutating
    /\ LET c == Check(req[w], bookings, users, rooms)
           o == Write(req[w], bookings, users, rooms, now)
       IN  /\ bookings' = IF req[w].op = "create" \/ req[w].booking_id \in DOMAIN bookings
                          THEN o.bookings ELSE bookings
           /\ resp' = [resp EXCEPT ![w] = IF c.go THEN o.resp ELSE c.resp]
    /\ pc' = [pc EXCEPT ![w] = "done"]
    /\ UNCHANGED <<users, rooms, now, req>>
    /\ UNCHANGED roomvars

\* A whole create, update or cancel handler, run without interleaving.
HandleWrite(w) ==
    /\ pc[w] = "received"
    /\ req[w].op \in Mutating
    /\ LET c == Check(req[w], bookings, users, rooms)
           o == Write(req[w], bookings, users, rooms, now)
       IN  IF c.go
           THEN bookings' = o.bookings /\ resp' = [resp EXCEPT ![w] = o.resp]
           ELSE bookings' = bookings /\ resp' = [resp EXCEPT ![w] = c.resp]
    /\ pc' = [pc EXCEPT ![w] = "done"]
    /\ UNCHANGED <<users, rooms, now, req>>
    /\ UNCHANGED roomvars

\* An availability handler that holds the window it reported free by
\* inserting a booking for it.
HandleReadReserves(w) ==
    /\ pc[w] = "received"
    /\ req[w].op \notin Mutating
    /\ \E a \in (CASE req[w].op = "list_all" -> ListAll(req[w], bookings)
                   [] req[w].op = "list_user" -> ListForUser(req[w], bookings, users)
                   [] req[w].op = "availability" ->
                        {AvailabilityCheck(req[w], bookings, rooms)}) :
            /\ resp' = [resp EXCEPT ![w] = a]
            /\ bookings' = IF req[w].op = "availability" /\ a.available
                           THEN create_booking(bookings, 1, req[w].room_id, req[w].date,
                                               req[w].start_time, req[w].end_time, now)
                           ELSE bookings
    /\ pc' = [pc EXCEPT ![w] = "done"]
    /\ UNCHANGED <<users, rooms, now, req>>
    /\ UNCHANGED roomvars

\* A whole list or availability handler.
HandleRead(w) ==
    /\ pc[w] = "received"
    /\ req[w].op \notin Mutating
    /\ \E a \in (CASE req[w].op = "list_all" -> ListAll(req[w], bookings)
                   [] req[w].op = "list_user" -> ListForUser(req[w], bookings, users)
                   [] req[w].op = "availability" ->
                        {AvailabilityCheck(req[w], bookings, rooms)}) :
            resp' = [resp EXCEPT ![w] = a]
    /\ pc' = [pc EXCEPT ![w] = "done"]
    /\ UNCHANGED <<bookings, users, rooms, now, req>>
    /\ UNCHANGED roomvars

\* The response leaves the service.
Reply(w) ==
    /\ pc[w] = "done"
    /\ pc' = [pc EXCEPT ![w] = "idle"]
    /\ req' = [req EXCEPT ![w] = NoRequest]
    /\ resp' = [resp EXCEPT ![w] = NoResponse]
    /\ UNCHANGED <<bookings, users, rooms, now>>
    /\ UNCHANGED roomvars

\* current_timestamp advances.
Tick ==
    /\ now < MaxClock
    /\ now' = now + 1
    /\ UNCHANGED <<bookings, users, rooms, pc, req, resp>>
    /\ UNCHANGED roomvars

\* The users service deletes a user row (it does not enable foreign keys).
DeleteUser(u) ==
    /\ u \in users
    /\ users' = users \ {u}
    /\ UNCHANGED <<bookings, rooms, now, pc, req, resp>>
    /\ UNCHANGED roomvars

\* The rooms service deletes a room row.
DeleteRoom(k) ==
    /\ k \in rooms
    /\ rooms' = rooms \ {k}
    /\ room_table' = [room_table EXCEPT !.rows = {r \in @ : r.id # k}]
    /\ UNCHANGED <<bookings, users, now, pc, req, resp>>
    /\ UNCHANGED <<all_rooms_cache, available_rooms_cache, local>>

Next ==
    \/ Receive(1, Requests)
    \/ HandleWrite(1)
    \/ HandleRead(1)
    \/ Reply(1)

Spec == Init /\ [][Next]_vars

(***************************************************************************)
(* The same handlers while the users and rooms services delete rows.       *)
(***************************************************************************)
EnvRequests ==
    {Request("create", c, 0, u, k, D0101, w[1], w[2]) :
        c \in {Admin, Alice, Manager}, u \in UserIds, k \in RoomIds,
        w \in {<<T1000, T1100>>, <<T1000, T1200>>}}
    \cup {Request("update", c, b, 0, 0, D0101, T1100, T1200) :
            c \in Owners, b \in BookingIds}
    \cup {Request("cancel", c, b, 0, 0, Empty, Empty, Empty) :
            c \in Callers, b \in BookingIds}
    \cup {Request("list_user", c, 0, u, 0, Empty, Empty, Empty) :
            c \in {Admin, Alice}, u \in UserIds}

NextEnv ==
    \/ Receive(1, EnvRequests)
    \/ HandleWrite(1)
    \/ HandleRead(1)
    \/ Reply(1)
    \/ \E u \in UserIds : pc[1] = "idle" /\ DeleteUser(u)
    \/ \E k \in RoomIds : pc[1] = "idle" /\ DeleteRoom(k)

SpecEnv == Init /\ [][NextEnv]_vars

(***************************************************************************)
(* The same handlers while the clock behind current_timestamp advances.    *)
(***************************************************************************)
ClockRequests ==
    {Request("create", c, 0, u, 1, D0101, w[1], w[2]) :
        c \in {Admin, Alice}, u \in UserIds, w \in Windows}
    \cup {Request("update", c, b, 0, 0, d, T1100, T1200) :
            c \in {Admin, Alice}, b \in BookingIds, d \in Dates}
    \cup {Request("cancel", c, b, 0, 0, Empty, Empty, Empty) :
            c \in Callers, b \in BookingIds}

NextClock ==
    \/ Receive(1, ClockRequests)
    \/ HandleWrite(1)
    \/ Reply(1)
    \/ Tick

SpecClock == Init /\ [][NextClock]_vars


(***************************************************************************)
(* Two requests in flight.  A handler's reads up to its availability check *)
(* are one step, its write is another: each call into database.py opens    *)
(* its own connection and commits on its own, and app.py holds no lock.    *)
(***************************************************************************)
RaceRequests ==
    {Request("create", Admin, 0, 1, 1, D0101, w[1], w[2]) : w \in Windows}
    \cup {Request("update", Admin, b, 0, 0, D0101, w[1], w[2]) :
            b \in 1..MaxBookings, w \in Windows}
    \cup {Request("cancel", Admin, b, 0, 0, Empty, Empty, Empty) : b \in 1..MaxBookings}

CheckStep(w) ==
    /\ pc[w] = "received"
    /\ req[w].op \in Mutating
    /\ LET c == Check(req[w], bookings, users, rooms)
       IN  IF c.go
           THEN pc' = [pc EXCEPT ![w] = "checked"] /\ resp' = resp
           ELSE pc' = [pc EXCEPT ![w] = "done"] /\ resp' = [resp EXCEPT ![w] = c.resp]
    /\ UNCHANGED <<bookings, users, rooms, now, req>>
    /\ UNCHANGED roomvars

WriteStep(w) ==
    /\ pc[w] = "checked"
    /\ LET o == Write(req[w], bookings, users, rooms, now)
       IN  bookings' = o.bookings /\ resp' = [resp EXCEPT ![w] = o.resp]
    /\ pc' = [pc EXCEPT ![w] = "done"]
    /\ UNCHANGED <<users, rooms, now, req>>
    /\ UNCHANGED roomvars

NextRace ==
    \E w \in Workers :
        \/ Receive(w, RaceRequests)
        \/ CheckStep(w)
        \/ WriteStep(w)
        \/ Reply(w)

SpecRace == Init /\ [][NextRace]_vars

(***************************************************************************)
(* The same handlers fed with well-formed and malformed times.             *)
(***************************************************************************)
FormatTimes ==
    {T0000, T1000, T1100, T2359, T9AM, T2500, T1060, T100, T10Dash00, T10Colons0,
     T12Fullwidth, T1Sup2}

FormatRequests ==
    {Request("create", Admin, 0, 1, 1, D0101, st, et) :
        st \in FormatTimes, et \in FormatTimes}
    \cup {Request("update", Admin, b, 0, 0, D0101, st, et) :
            b \in BookingIds, st \in FormatTimes, et \in FormatTimes}
    \cup {Request("availability", Alice, 0, 0, 1, D0101, st, et) :
            st \in FormatTimes, et \in FormatTimes}
    \cup {Request("cancel", Admin, b, 0, 0, Empty, Empty, Empty) : b \in BookingIds}

NextFormat ==
    \/ Receive(1, FormatRequests)
    \/ HandleWrite(1)
    \/ HandleRead(1)
    \/ Reply(1)

SpecFormat == Init /\ [][NextFormat]_vars

(***************************************************************************)
(* Queries of one client while another client's requests are served: each  *)
(* handler runs as one step, the two clients' requests alternate freely.   *)
(***************************************************************************)
QueryRequests ==
    {Request("availability", c, 0, 0, 1, D0101, w[1], w[2]) :
        c \in {Anonymous, Alice}, w \in Windows}
    \cup {Request("list_all", Admin, 0, 0, 0, Empty, Empty, Empty),
          Request("list_user", Alice, 0, 1, 0, Empty, Empty, Empty)}
    \cup {Request("create", Alice, 0, 1, 1, D0101, w[1], w[2]) : w \in Windows}
    \cup {Request("cancel", Admin, b, 0, 0, Empty, Empty, Empty) : b \in 1..MaxBookings}

NextQuery ==
    \E w \in Workers :
        \/ Receive(w, QueryRequests)
        \/ HandleWrite(w)
        \/ HandleRead(w)
        \/ Reply(w)

SpecQuery == Init /\ [][NextQuery]_vars

(***************************************************************************)
(* The rooms service.  Every call into room_service/database.py opens its  *)
(* own connection and commits on its own, and the two caches are module    *)
(* globals guarded by no lock: a handler's reads before its write, its     *)
(* write, and its invalidation are separate steps, and so are the cache    *)
(* test, the select and the cache store of a GET.                          *)
(***************************************************************************)
RoomCallers == {Admin, Alice, Anonymous}

RoomRequests ==
    {RoomRequest("create_room", c, "C", 10, "tv", "floor 2", st, Empty) :
        c \in RoomCallers, st \in {NoneVal, "booked"}}
    \cup {RoomRequest("create_room", Admin, "A", 4, "tv", "floor 1", "available", Empty),
          RoomRequest("create_room", Admin, "C", 0, "tv", "floor 2", "available", Empty),
          RoomRequest("create_room", Admin, "C", 10, "tv", NoneVal, "available", Empty)}
    \cup {RoomRequest("update_room", Admin, n, 0, NoneVal, NoneVal, st, Empty) :
            n \in {"A", "C"}, st \in {"available", "booked"}}
    \cup {RoomRequest("update_room", Manager, "B", 8, NoneVal, NoneVal, NoneVal, Empty),
          RoomRequest("update_room", Alice, "A", 8, NoneVal, NoneVal, NoneVal, Empty)}
    \cup {RoomRequest("delete_room", c, n, 0, NoneVal, NoneVal, NoneVal, Empty) :
            c \in {Admin, Alice}, n \in {"A", "B"}}
    \cup {RoomRequest("get_all_rooms", Anonymous, NoneVal, 0, NoneVal, NoneVal, NoneVal, Empty)}
    \cup {RoomRequest("get_available_rooms", Anonymous, NoneVal, 0, NoneVal, NoneVal,
                      NoneVal, m) : m \in {Empty, T10, T9AM}}

\* Rooms about to be inserted by a request in flight.
PendingRooms ==
    Cardinality({w \in Workers : pc[w] \in {"received", "checked"}
                                  /\ req[w].op = "create_room"})

RoomReceive(w, R) ==
    /\ pc[w] = "idle"
    /\ \E r \in R :
        /\ r.op = "create_room" => room_table.seq + PendingRooms < MaxRoomId
        /\ req' = [req EXCEPT ![w] = r]
    /\ pc' = [pc EXCEPT ![w] = "received"]
    /\ UNCHANGED <<bookings, users, rooms, now, resp>>
    /\ UNCHANGED roomvars

\* create_room, update_room, delete_room before their write.
RoomCheckStep(w) ==
    /\ pc[w] = "received"
    /\ req[w].op \in RoomWrites
    /\ LET c == RoomCheck(req[w], room_table)
       IN  IF c.go
           THEN /\ pc' = [pc EXCEPT ![w] = "checked"]
                /\ local' = [local EXCEPT ![w].existing = c.existing]
                /\ resp' = resp
           ELSE /\ pc' = [pc EXCEPT ![w] = "done"]
                /\ resp' = [resp EXCEPT ![w] = c.resp]
                /\ local' = local
    /\ UNCHANGED <<bookings, users, rooms, now, req>>
    /\ UNCHANGED <<room_table, all_rooms_cache, available_rooms_cache>>

\* insert_room, update_room_row or delete_room_row commits and the response
\* is built; a handler whose write failed answers 500 and skips the
\* invalidation.
RoomWriteStep(w) ==
    /\ pc[w] = "checked"
    /\ req[w].op \in RoomWrites
    /\ LET o == RoomWrite(req[w], room_table, local[w].existing)
       IN  /\ room_table' = o.table
           /\ rooms' = RoomIdsOf(o.table)
           /\ resp' = [resp EXCEPT ![w] = o.resp]
           /\ IF o.go
              THEN pc' = [pc EXCEPT ![w] = "written"] /\ local' = local
              ELSE pc' = [pc EXCEPT ![w] = "done"]
                   /\ local' = [local EXCEPT ![w] = NoLocal]
    /\ UNCHANGED <<bookings, users, now, req>>
    /\ UNCHANGED <<all_rooms_cache, available_rooms_cache>>

\* invalidate_rooms_cache(), then the handler returns its response.
RoomInvalidateStep(w) ==
    /\ pc[w] = "written"
    /\ LET c == invalidate_rooms_cache(all_rooms_cache, available_rooms_cache)
       IN  /\ all_rooms_cache' = c.all
           /\ available_rooms_cache' = c.available
    /\ pc' = [pc EXCEPT ![w] = "done"]
    /\ local' = [local EXCEPT ![w] = NoLocal]
    /\ UNCHANGED <<bookings, users, rooms, now, req, resp, room_table>>

\* get_all_rooms and get_available_rooms up to the cache test: a hit
\* returns the cached list, a miss goes on with now = time.time().
RoomCacheStep(w) ==
    /\ pc[w] = "received"
    /\ req[w].op \in RoomReads
    /\ LET key == availability_cache_key(MinCapacity(req[w]))
       IN  IF req[w].op = "get_all_rooms"
           THEN IF AllRoomsCached(all_rooms_cache, now)
                THEN /\ pc' = [pc EXCEPT ![w] = "done"]
                     /\ resp' = [resp EXCEPT ![w] =
                                    RoomResponse(200, "rooms", all_rooms_cache.data[1])]
                     /\ local' = local
                ELSE /\ pc' = [pc EXCEPT ![w] = "missed"]
                     /\ resp' = resp
                     /\ local' = [local EXCEPT ![w].now = now]
           ELSE IF req[w].min_capacity # Empty /\ IntRaises(req[w].min_capacity)
                THEN /\ pc' = [pc EXCEPT ![w] = "done"]
                     /\ resp' = [resp EXCEPT ![w] =
                            RoomResponse(400, "min_capacity must be an integer", {})]
                     /\ local' = local
           ELSE IF AvailableRoomsCached(available_rooms_cache, key, now)
                THEN /\ pc' = [pc EXCEPT ![w] = "done"]
                     /\ resp' = [resp EXCEPT ![w] =
                            RoomResponse(200, "rooms", available_rooms_cache[key].data)]
                     /\ local' = local
                ELSE /\ pc' = [pc EXCEPT ![w] = "missed"]
                     /\ resp' = resp
                     /\ local' = [local EXCEPT ![w].now = now]
    /\ UNCHANGED <<bookings, users, rooms, now, req>>
    /\ UNCHANGED <<room_table, all_rooms_cache, available_rooms_cache>>

\* data = list_all_rooms() or data = search_available_rooms(...).
RoomReadStep(w) ==
    /\ pc[w] = "missed"
    /\ local' = [local EXCEPT ![w].data =
                    IF req[w].op = "get_all_rooms" THEN list_all_rooms(room_table)
                    ELSE search_available_rooms(room_table, MinCapacity(req[w]))]
    /\ pc' = [pc EXCEPT ![w] = "read"]
    /\ UNCHANGED <<bookings, users, rooms, now, req, resp>>
    /\ UNCHANGED <<room_table, all_rooms_cache, available_rooms_cache>>

\* The list read goes into the cache, expiring ROOMS_CACHE_TTL after the
\* time taken before the read, and is returned.
RoomStoreStep(w) ==
    /\ pc[w] = "read"
    /\ LET entry == [data |-> local[w].data,
                     expires_at |-> local[w].now + ROOMS_CACHE_TTL]
       IN  IF req[w].op = "get_all_rooms"
           THEN /\ all_rooms_cache' = [entry EXCEPT !.data = <<local[w].data>>]
                /\ available_rooms_cache' = available_rooms_cache
           ELSE /\ available_rooms_cache' =
                    (availability_cache_key(MinCapacity(req[w])) :> entry)
                        @@ available_rooms_cache
                /\ all_rooms_cache' = all_rooms_cache
    /\ resp' = [resp EXCEPT ![w] = RoomResponse(200, "rooms", local[w].data)]
    /\ pc' = [pc EXCEPT ![w] = "done"]
    /\ local' = [local EXCEPT ![w] = NoLocal]
    /\ UNCHANGED <<bookings, users, rooms, now, req, room_table>>

\* time.time() advances.
RoomTick ==
    /\ \E d \in TickSeconds : now + d <= MaxTime /\ now' = now + d
    /\ UNCHANGED <<bookings, users, rooms, pc, req, resp>>
    /\ UNCHANGED roomvars

\* One request at a time.
NextRooms ==
    \/ RoomReceive(1, RoomRequests)
    \/ RoomCheckStep(1)
    \/ RoomWriteStep(1)
    \/ RoomInvalidateStep(1)
    \/ RoomCacheStep(1)
    \/ RoomReadStep(1)
    \/ RoomStoreStep(1)
    \/ Reply(1)
    \/ RoomTick

SpecRooms == Init /\ [][NextRooms]_vars

\* Two requests in flight.
RoomRaceRequests ==
    {RoomRequest("create_room", Admin, "C", 10, "tv", "floor 2", NoneVal, Empty),
     RoomRequest("update_room", Admin, "A", 0, NoneVal, NoneVal, "booked", Empty),
     RoomRequest("delete_room", Admin, "B", 0, NoneVal, NoneVal, NoneVal, Empty),
     RoomRequest("get_all_rooms", Anonymous, NoneVal, 0, NoneVal, NoneVal, NoneVal, Empty),
     RoomRequest("get_available_rooms", Anonymous, NoneVal, 0, NoneVal, NoneVal,
                 NoneVal, Empty)}

NextRoomsRace ==
    \/ \E w \in Workers :
        \/ RoomReceive(w, RoomRaceRequests)
        \/ RoomCheckStep(w)
        \/ RoomWriteStep(w)
        \/ RoomInvalidateStep(w)
        \/ RoomCacheStep(w)
        \/ RoomReadStep(w)
        \/ RoomStoreStep(w)
        \/ Reply(w)
    \/ RoomTick

SpecRoomsRace == Init /\ [][NextRoomsRace]_vars

(***************************************************************************)
(* Properties.                                                             *)
(***************************************************************************)
Active(b) == b.status = "active"

\* Two rows reserve the same room on the same date for intersecting windows.
Overlap(a, b) ==
    /\ a.room_id = b.room_id
    /\ a.date = b.date
    /\ StrLt(a.start_time, b.end_time)
    /\ StrLt(b.start_time, a.end_time)

\* The handler of worker 1 runs in this step.
Handled == pc[1] = "received" /\ pc'[1] = "done"

\* C1: with requests handled one at a time from an empty store, no two
\* distinct active bookings of the same room and date have windows with
\* a.start_time < b.end_time and a.end_time > b.start_time.
NoOverlap ==
    \A i, j \in DOMAIN bookings :
        (i # j /\ Active(bookings[i]) /\ Active(bookings[j]))
            => ~Overlap(bookings[i], bookings[j])

\* Two active bookings share a room and a date after a successful update.
NoOverlapWitness ==
    /\ pc[1] = "done" /\ req[1].op = "update" /\ resp[1].code = 200
    /\ Len(bookings) = 2
    /\ Active(bookings[1]) /\ Active(bookings[2])
    /\ bookings[1].room_id = bookings[2].room_id
    /\ bookings[1].date = bookings[2].date

\* Some active booking of the room and date intersects the requested window.
Taken(bs, room_id, date, start_time, end_time) ==
    \E i \in DOMAIN bs :
        /\ Active(bs[i]) /\ bs[i].room_id = room_id /\ bs[i].date = date
        /\ StrLt(bs[i].start_time, end_time)
        /\ StrLt(start_time, bs[i].end_time)

\* A well-formed schedule: a date and two times of the right form, in order.
WellFormed(r) ==
    r.date \in Dates /\ r.start_time \in Times /\ r.end_time \in Times
    /\ StrLt(r.start_time, r.end_time)

\* The caller may create the booking: admin and facility_manager for any
\* user_id, regular only for the user that carries the caller's username.
MayCreate(r) ==
    \/ r.caller.role \in {"admin", "facility_manager"}
    \/ /\ r.caller.role = "regular"
       /\ r.user_id \in users
       /\ Username(r.user_id) = r.caller.username

\* The step appends exactly one active row with the requested fields and
\* answers 201 with its id.
Inserted(r) ==
    /\ resp'[1].code = 201
    /\ Len(bookings') = Len(bookings) + 1
    /\ SubSeq(bookings', 1, Len(bookings)) = bookings
    /\ LET b == bookings'[Len(bookings')]
       IN  /\ b.status = "active" /\ b.user_id = r.user_id /\ b.room_id = r.room_id
           /\ b.date = r.date /\ b.start_time = r.start_time /\ b.end_time = r.end_time
           /\ resp'[1].booking_id = b.id
           /\ \A i \in DOMAIN bookings : bookings[i].id # b.id

CreateOutcome(r) ==
    IF Taken(bookings, r.room_id, r.date, r.start_time, r.end_time)
    THEN resp'[1].code = 409 /\ bookings' = bookings
    ELSE Inserted(r)

\* C2: a create that is authorized, well formed and names an existing room
\* answers 409 and inserts nothing iff an active booking of that room and
\* date intersects the requested window; otherwise it inserts exactly one
\* active booking with the requested fields and answers 201 with its id.
CreateDecidedByOverlap ==
    [][(Handled /\ req[1].op = "create" /\ MayCreate(req[1])
        /\ req[1].user_id # 0 /\ WellFormed(req[1]) /\ req[1].room_id \in rooms)
            => CreateOutcome(req[1])]_vars

\* An admin's create for a user_id with no user row has been answered.
CreateUnknownUserWitness ==
    /\ pc[1] = "done" /\ req[1].op = "create" /\ req[1].caller = Admin
    /\ req[1].user_id \notin users /\ req[1].user_id # 0
    /\ resp[1].code = 500

\* C3: the availability check and the write are separate steps with no lock
\* across them: a create or update that has passed its check writes whatever
\* was stored in between, so two concurrent requests for intersecting
\* windows of one room and date can both succeed.
WriteIgnoresInterveningWrites ==
    [][\A w \in Workers :
        (pc[w] = "checked" /\ pc'[w] = "done") =>
            /\ req[w].op = "create" =>
                /\ resp'[w].code = 201
                /\ Len(bookings') = Len(bookings) + 1
                /\ Active(bookings'[Len(bookings')])
                /\ bookings'[Len(bookings')].start_time = req[w].start_time
                /\ bookings'[Len(bookings')].end_time = req[w].end_time
            /\ req[w].op = "update" =>
                /\ resp'[w].code = 200
                /\ bookings'[req[w].booking_id].date = req[w].date
                /\ bookings'[req[w].booking_id].start_time = req[w].start_time
                /\ bookings'[req[w].booking_id].end_time = req[w].end_time]_vars

\* Both concurrent creates were answered 201 and the store holds two
\* intersecting active bookings.
DoubleBookingWitness ==
    /\ pc[1] = "done" /\ pc[2] = "done"
    /\ req[1].op = "create" /\ req[2].op = "create"
    /\ resp[1].code = 201 /\ resp[2].code = 201
    /\ \E i, j \in DOMAIN bookings :
        i # j /\ Active(bookings[i]) /\ Active(bookings[j])
        /\ Overlap(bookings[i], bookings[j])

\* The user row of the booking's owner exists and carries the caller's name.
OwnedByCaller(r, user_id) == user_id \in users /\ Username(user_id) = r.caller.username

\* The user the request acts for or against: the body's user_id for a
\* create, the stored owner of the addressed booking otherwise.
TargetUser(r) ==
    IF r.op = "create" THEN r.user_id ELSE bookings[r.booking_id].user_id

Targets(r) ==
    \/ r.op = "create"
    \/ r.op \in {"update", "cancel"} /\ r.booking_id \in DOMAIN bookings

\* C4: a regular caller's create for another user's user_id, and update or
\* cancel of a booking owned by another user, is answered 403 and changes no
\* booking; no request of a regular caller that targets a booking it does
\* not own changes the store.
OwnershipEnforced ==
    [][(Handled /\ req[1].caller.role = "regular" /\ Targets(req[1])
        /\ ~OwnedByCaller(req[1], TargetUser(req[1])))
            => /\ bookings' = bookings
               /\ TargetUser(req[1]) \in users => resp'[1].code = 403]_vars

\* Alice's cancel of Bob's active booking was answered 403 and the booking
\* is still active.
OwnershipWitness ==
    /\ pc[1] = "done" /\ req[1].op = "cancel" /\ req[1].caller = Alice
    /\ req[1].booking_id \in DOMAIN bookings
    /\ bookings[req[1].booking_id].user_id = 2 /\ 2 \in users
    /\ Active(bookings[req[1].booking_id])
    /\ resp[1].code = 403

\* Some active booking other than `booking_id` intersects the window.
TakenByOther(bs, booking_id, room_id, date, start_time, end_time) ==
    \E i \in DOMAIN bs :
        /\ i # booking_id
        /\ Active(bs[i]) /\ bs[i].room_id = room_id /\ bs[i].date = date
        /\ StrLt(bs[i].start_time, end_time)
        /\ StrLt(start_time, bs[i].end_time)

\* The caller may update or cancel the stored booking: admin, or the regular
\* caller whose username is the owner's.
MayModify(r) ==
    /\ r.booking_id \in DOMAIN bookings
    /\ bookings[r.booking_id].user_id \in users
    /\ \/ r.caller.role = "admin"
       \/ r.caller.role = "regular" /\ OwnedByCaller(r, bookings[r.booking_id].user_id)

\* C5: an authorized, well-formed update of an active booking whose new
\* window intersects no other active booking of its room and date (it may
\* equal or intersect the booking's own current window) is answered 200, not
\* 409.
UpdateNoSelfConflict ==
    [][(Handled /\ req[1].op = "update" /\ MayModify(req[1]) /\ WellFormed(req[1])
        /\ Active(bookings[req[1].booking_id])
        /\ bookings[req[1].booking_id].room_id \in rooms
        /\ ~TakenByOther(bookings, req[1].booking_id,
                         bookings[req[1].booking_id].room_id,
                         req[1].date, req[1].start_time, req[1].end_time))
            => resp'[1].code = 200]_vars

\* The only stored booking was updated to its own window and the update was
\* answered 409.
SelfConflictWitness ==
    /\ pc[1] = "done" /\ req[1].op = "update" /\ resp[1].code = 409
    /\ Len(bookings) = 1 /\ req[1].booking_id = 1
    /\ req[1].date = bookings[1].date
    /\ req[1].start_time = bookings[1].start_time
    /\ req[1].end_time = bookings[1].end_time

\* The table without row i.
Without(bs, i) == SubSeq(bs, 1, i - 1) \o SubSeq(bs, i + 1, Len(bs))

\* The status code a whole create handler answers on a given table.
CreateCode(r, bs) ==
    IF CreateCheck(r, bs, users, rooms).go
    THEN CreateWrite(r, bs, users, rooms, now).resp.code
    ELSE CreateCheck(r, bs, users, rooms).resp.code

InRows(rows, b) == \E k \in DOMAIN rows : rows[k] = b

\* C6: a cancelled booking stays stored with status 'cancelled' and is
\* returned by list-all and by list-for-user of its owner, and creates and
\* availability checks are decided as if it did not exist.
SoftDelete ==
    [][Handled =>
        /\ (req[1].op = "cancel" /\ resp'[1].msg = "booking cancelled") =>
            /\ Len(bookings') = Len(bookings)
            /\ bookings'[req[1].booking_id] =
                 [bookings[req[1].booking_id] EXCEPT
                    !.status = "cancelled",
                    !.updated_at = bookings'[req[1].booking_id].updated_at]
        /\ \A i \in DOMAIN bookings :
            ~Active(bookings[i]) =>
                /\ i \in DOMAIN bookings' /\ ~Active(bookings'[i])
                /\ (req[1].op = "list_all" /\ resp'[1].code = 200)
                        => InRows(resp'[1].rows, bookings[i])
                /\ (req[1].op = "list_user" /\ resp'[1].code = 200
                    /\ req[1].user_id = bookings[i].user_id)
                        => InRows(resp'[1].rows, bookings[i])
                /\ req[1].op = "create"
                        => resp'[1].code = CreateCode(req[1], Without(bookings, i))
                /\ req[1].op = "availability"
                        => resp'[1] = AvailabilityCheck(req[1], Without(bookings, i), rooms)]_vars

\* A create was answered 201 for a window that intersects a cancelled
\* booking of the same room and date.
SoftDeleteWitness ==
    /\ pc[1] = "done" /\ req[1].op = "create" /\ resp[1].code = 201
    /\ Len(bookings) = 2
    /\ ~Active(bookings[1]) /\ Active(bookings[2])
    /\ Overlap(bookings[1], bookings[2])

\* The request's window intersects row b's window on b's date.
Hits(r, b) ==
    r.date = b.date /\ StrLt(b.start_time, r.end_time) /\ StrLt(r.start_time, b.end_time)

\* Creates for a room that pass everything before the availability check.
ValidCreates(room_id) ==
    {Request("create", Admin, 0, u, room_id, d, w[1], w[2]) :
        u \in users, d \in Dates, w \in Windows}

\* A successful update of an active booking to a window that does not
\* intersect its old one.
Moves(r) ==
    /\ Handled /\ r.op = "update" /\ resp'[1].code = 200
    /\ Active(bookings[r.booking_id])
    /\ ~Hits(r, bookings[r.booking_id])

\* C7 as stated: after the update every valid create on the old window that
\* misses the new window is answered 201.
UpdateFreesOldWindowAlways ==
    [][Moves(req[1]) =>
        \A c \in ValidCreates(bookings[req[1].booking_id].room_id) :
            (Hits(c, bookings[req[1].booking_id]) /\ ~Hits(c, req[1]))
                => CreateCode(c, bookings') = 201]_vars

\* C7, amended: a successful update of active booking A from W1 to W2 moves
\* the reservation.  Before it every valid create on A's room intersecting
\* W1 on W1's date is answered 409; after it every valid create intersecting
\* W2 on W2's date is answered 409, and one intersecting W1 but not W2 is
\* answered 201 when no other active booking of the room and date intersects
\* it.
UpdateMovesWindow ==
    [][Moves(req[1]) =>
        LET old == bookings[req[1].booking_id]
        IN  \A c \in ValidCreates(old.room_id) :
                /\ Hits(c, old) => CreateCode(c, bookings) = 409
                /\ Hits(c, req[1]) => CreateCode(c, bookings') = 409
                /\ (Hits(c, old) /\ ~Hits(c, req[1])
                    /\ ~TakenByOther(bookings', old.id, old.room_id, c.date,
                                     c.start_time, c.end_time))
                        => CreateCode(c, bookings') = 201]_vars

\* An active booking was moved by a successful update while another active
\* booking of the same room exists.
UpdateMovesWitness ==
    /\ pc[1] = "done" /\ req[1].op = "update" /\ resp[1].code = 200
    /\ Len(bookings) = 2
    /\ Active(bookings[1]) /\ Active(bookings[2])
    /\ bookings[1].room_id = bookings[2].room_id
    /\ bookings[req[1].booking_id].start_time = req[1].start_time

\* The caller may cancel the stored booking: admin, or its regular owner.
MayCancel(r) ==
    /\ r.booking_id \in DOMAIN bookings
    /\ \/ r.caller.role = "admin"
       \/ r.caller.role = "regular" /\ OwnedByCaller(r, bookings[r.booking_id].user_id)

\* C8: an authorized cancel of an already cancelled booking answers 200
\* 'booking already cancelled' and writes nothing (status, date, times and
\* updated_at stay as they were); the cancel of an active booking answers
\* 200 'booking cancelled' and sets its status to 'cancelled'.
IdempotentCancel ==
    [][(Handled /\ req[1].op = "cancel" /\ MayCancel(req[1])) =>
        IF bookings[req[1].booking_id].status = "cancelled"
        THEN /\ resp'[1].code = 200 /\ resp'[1].msg = "booking already cancelled"
             /\ bookings' = bookings
        ELSE /\ resp'[1].code = 200 /\ resp'[1].msg = "booking cancelled"
             /\ bookings'[req[1].booking_id].status = "cancelled"]_vars

\* A second cancel was answered 'booking already cancelled' after the clock
\* had advanced past the booking's updated_at.
IdempotentCancelWitness ==
    /\ pc[1] = "done" /\ req[1].op = "cancel"
    /\ resp[1].msg = "booking already cancelled"
    /\ bookings[req[1].booking_id].status = "cancelled"
    /\ bookings[req[1].booking_id].updated_at < now

\* C9: once a booking is cancelled no request changes its date, start_time
\* or end_time.
CancelledIsTerminal ==
    [][\A i \in DOMAIN bookings :
        bookings[i].status = "cancelled" =>
            /\ bookings'[i].date = bookings[i].date
            /\ bookings'[i].start_time = bookings[i].start_time
            /\ bookings'[i].end_time = bookings[i].end_time]_vars

\* An update of a cancelled booking was answered 200 and the booking carries
\* the requested schedule.
CancelledRescheduledWitness ==
    /\ pc[1] = "done" /\ req[1].op = "update" /\ resp[1].code = 200
    /\ bookings[req[1].booking_id].status = "cancelled"
    /\ bookings[req[1].booking_id].date = req[1].date
    /\ bookings[req[1].booking_id].start_time = req[1].start_time
    /\ bookings[req[1].booking_id].end_time = req[1].end_time

\* C10: every stored status is 'active' or 'cancelled', never 'updated'; a
\* booking enters the store 'active' through a create; the only status
\* change is active -> cancelled, made by a cancel of that booking.
StatusMachine ==
    [][\A i \in DOMAIN bookings' :
        /\ bookings'[i].status \in {"active", "cancelled"}
        /\ i \notin DOMAIN bookings =>
            /\ bookings'[i].status = "active"
            /\ Handled /\ req[1].op = "create"
        /\ (i \in DOMAIN bookings /\ bookings'[i].status # bookings[i].status) =>
            /\ bookings[i].status = "active" /\ bookings'[i].status = "cancelled"
            /\ Handled /\ req[1].op = "cancel" /\ req[1].booking_id = i]_vars

\* An active booking was updated with success and is still active, next to
\* a cancelled one.
StatusMachineWitness ==
    /\ pc[1] = "done" /\ req[1].op = "update" /\ resp[1].code = 200
    /\ Len(bookings) = 2 /\ req[1].booking_id = 2
    /\ bookings[1].status = "cancelled" /\ bookings[2].status = "active"

\* The callers list-for-user serves for the given user.
MayView(c, user_id) ==
    \/ c.role \in {"admin", "facility_manager", "auditor"}
    \/ c.role = "regular" /\ c.username = Username(user_id)

\* C11: right after a create answered 201 with booking_id, list-for-user of
\* the requested user_id by any allowed caller answers 200 with exactly one
\* record of that id, which carries the requested user_id, room_id, date,
\* start_time and end_time and status 'active'.
CreateListRoundTrip ==
    (pc[1] = "done" /\ req[1].op = "create" /\ resp[1].code = 201) =>
        \A c \in {k \in Callers : MayView(k, req[1].user_id)} :
            \A a \in ListForUser(Request("list_user", c, 0, req[1].user_id, 0,
                                         Empty, Empty, Empty), bookings, users) :
                /\ a.code = 200
                /\ Cardinality({k \in DOMAIN a.rows :
                                    a.rows[k].id = resp[1].booking_id}) = 1
                /\ \A k \in DOMAIN a.rows :
                        a.rows[k].id = resp[1].booking_id =>
                            /\ a.rows[k].user_id = req[1].user_id
                            /\ a.rows[k].room_id = req[1].room_id
                            /\ a.rows[k].date = req[1].date
                            /\ a.rows[k].start_time = req[1].start_time
                            /\ a.rows[k].end_time = req[1].end_time
                            /\ a.rows[k].status = "active"

\* A second booking of the same user was created with success: the list
\* holds two records, one of them the new one.
CreateListWitness ==
    /\ pc[1] = "done" /\ req[1].op = "create" /\ resp[1].code = 201
    /\ Len(bookings) = 2 /\ resp[1].booking_id = 2
    /\ bookings[1].user_id = 2 /\ bookings[2].user_id = 2

\* Some field a create needs is absent or empty.
CreateFieldMissing(r) ==
    require_fields(<<r.user_id, r.room_id>>, <<r.date, r.start_time, r.end_time>>)

\* C12: a create by an admin, regular or facility_manager caller in which
\* user_id, room_id, date, start_time or end_time is absent or empty is
\* answered 400 'missing' and inserts nothing; a regular caller who omits
\* user_id gets 400, not 404 or 403.
CreateChecksPresenceFirst ==
    [][(Handled /\ req[1].op = "create"
        /\ req[1].caller.role \in {"admin", "regular", "facility_manager"}
        /\ CreateFieldMissing(req[1]))
            => /\ resp'[1].code = 400 /\ resp'[1].msg = "missing"
               /\ bookings' = bookings]_vars

\* A regular caller's create without user_id was answered 404.
RegularMissingUserIdWitness ==
    /\ pc[1] = "done" /\ req[1].op = "create" /\ req[1].caller = Alice
    /\ req[1].user_id = 0
    /\ resp[1].code = 404 /\ resp[1].msg = "user not found"

\* C13: an otherwise valid create by an admin, regular or facility_manager
\* caller whose user_id names no existing user is answered 404 and inserts
\* nothing; every booking a create stores names a user that exists then.
CreateUnknownUserNotFound ==
    [][(Handled /\ req[1].op = "create") =>
        /\ (/\ req[1].caller.role \in {"admin", "regular", "facility_manager"}
            /\ ~CreateFieldMissing(req[1]) /\ WellFormed(req[1])
            /\ req[1].room_id \in rooms
            /\ req[1].user_id \notin users)
                => resp'[1].code = 404 /\ bookings' = bookings
        /\ \A i \in DOMAIN bookings' :
                i \notin DOMAIN bookings => bookings'[i].user_id \in users]_vars

\* With one booking stored, an admin's valid create for a user_id without a
\* user row was answered 500 and stored nothing.
AdminUnknownUserWitness ==
    /\ pc[1] = "done" /\ req[1].op = "create" /\ req[1].caller.role = "admin"
    /\ req[1].user_id = 3 /\ req[1].room_id \in rooms /\ WellFormed(req[1])
    /\ Len(bookings) = 1
    /\ resp[1] = Unhandled

\* The schedule of booking i is the requested one.
Rescheduled(bs, r) ==
    /\ bs[r.booking_id].date = r.date
    /\ bs[r.booking_id].start_time = r.start_time
    /\ bs[r.booking_id].end_time = r.end_time

\* C14: an update or cancel from a caller without a role is answered 401,
\* one from a caller whose role is neither admin nor regular is answered
\* 403, and neither changes a booking; an admin is never refused for lack of
\* permission on an existing booking, whoever owns it: the cancel succeeds
\* and a well-formed update onto a free window is applied.
MutationRoleGate ==
    [][(Handled /\ req[1].op \in {"update", "cancel"}) =>
        /\ req[1].caller.role = NoneVal
                => resp'[1].code = 401 /\ bookings' = bookings
        /\ req[1].caller.role \notin {NoneVal, "admin", "regular"}
                => resp'[1].code = 403 /\ bookings' = bookings
        /\ (req[1].caller.role = "admin" /\ req[1].booking_id \in DOMAIN bookings) =>
            /\ resp'[1].code \notin {401, 403}
            /\ req[1].op = "cancel" =>
                /\ resp'[1].code = 200
                /\ bookings'[req[1].booking_id].status = "cancelled"
            /\ (/\ req[1].op = "update" /\ WellFormed(req[1])
                /\ ~Taken(bookings, bookings[req[1].booking_id].room_id,
                          req[1].date, req[1].start_time, req[1].end_time))
                    => resp'[1].code = 200 /\ Rescheduled(bookings', req[1])]_vars

\* A facility manager's cancel of an existing active booking was answered
\* 403 and the booking is still active.
MutationRoleGateWitness ==
    /\ pc[1] = "done" /\ req[1].op = "cancel" /\ req[1].caller = Manager
    /\ req[1].booking_id \in DOMAIN bookings
    /\ Active(bookings[req[1].booking_id])
    /\ resp[1].code = 403

\* The rows are the stored bookings with the given indices, each once.
ExactlyRows(rows, bs, ids) ==
    /\ Len(rows) = Cardinality(ids)
    /\ \A i \in ids : InRows(rows, bs[i])

\* C15: list-all answers 200 with the stored bookings (the empty list on an
\* empty store) to admin, facility_manager and auditor only; a caller
\* without a role gets 401, any other role gets 403, both without rows.
ListAllAuthorization ==
    [][(Handled /\ req[1].op = "list_all") =>
        IF req[1].caller.role \in {"admin", "facility_manager", "auditor"}
        THEN /\ resp'[1].code = 200
             /\ ExactlyRows(resp'[1].rows, bookings, DOMAIN bookings)
        ELSE /\ resp'[1].code = (IF req[1].caller.role = NoneVal THEN 401 ELSE 403)
             /\ resp'[1].rows = <<>>]_vars

\* With two bookings stored, a regular caller's list-all was answered 403.
ListAllWitness ==
    /\ pc[1] = "done" /\ req[1].op = "list_all" /\ req[1].caller = Alice
    /\ Len(bookings) = 2
    /\ resp[1].code = 403 /\ resp[1].rows = <<>>

\* C16: list-for-user of user U answers admin, facility_manager and auditor
\* with exactly the stored bookings whose user_id is U, of every status; a
\* regular caller gets them only when U's username is the caller's and gets
\* 403 without rows otherwise; when U does not exist the answer is 404.
ListForUserAuthorization ==
    [][(Handled /\ req[1].op = "list_user"
        /\ req[1].caller.role \in {"admin", "facility_manager", "auditor", "regular"}) =>
        IF req[1].user_id \notin users
        THEN resp'[1].code = 404 /\ resp'[1].rows = <<>>
        ELSE IF req[1].caller.role = "regular"
                /\ Username(req[1].user_id) # req[1].caller.username
        THEN resp'[1].code = 403 /\ resp'[1].rows = <<>>
        ELSE /\ resp'[1].code = 200
             /\ ExactlyRows(resp'[1].rows, bookings,
                             {i \in DOMAIN bookings :
                                bookings[i].user_id = req[1].user_id})]_vars

\* The owner listed their own bookings and received one cancelled row; the
\* other user's active booking is not among the rows.
ListForUserWitness ==
    /\ pc[1] = "done" /\ req[1].op = "list_user" /\ req[1].caller = Alice
    /\ req[1].user_id = 1
    /\ Len(bookings) = 2
    /\ bookings[1].user_id = 1 /\ ~Active(bookings[1])
    /\ bookings[2].user_id = 2 /\ Active(bookings[2])
    /\ resp[1].code = 200 /\ resp[1].rows = <<bookings[1]>>

\* C17: a check-availability request from a caller with no resolvable
\* identity is answered 401 and carries no availability result; a caller
\* with an identity is never refused for its role.
AvailabilityNeedsIdentity ==
    [][(Handled /\ req[1].op = "availability") =>
        IF req[1].caller = Anonymous
        THEN resp'[1].code = 401 /\ resp'[1].msg # "availability"
        ELSE resp'[1].code \notin {401, 403}]_vars

\* A caller without token or headers asked for a booked window and was
\* told, with 200, that the room is not available.
AnonymousAvailabilityWitness ==
    /\ pc[1] = "done" /\ req[1].op = "availability" /\ req[1].caller = Anonymous
    /\ Len(bookings) >= 1
    /\ resp[1].code = 200 /\ resp[1].msg = "availability" /\ ~resp[1].available

\* C18: for an existing room and a well-formed window, check-availability
\* answers 200 with available = true iff no active booking of that room and
\* date starts before the requested end and ends after the requested start;
\* other rooms, other dates and cancelled bookings never make it false.
AvailabilityResult ==
    [][(Handled /\ req[1].op = "availability" /\ req[1].room_id \in rooms
        /\ WellFormed(req[1])) =>
            /\ resp'[1].code = 200
            /\ resp'[1].available <=>
                ~ \E i \in DOMAIN bookings :
                    /\ bookings[i].status = "active"
                    /\ bookings[i].room_id = req[1].room_id
                    /\ bookings[i].date = req[1].date
                    /\ StrLt(bookings[i].start_time, req[1].end_time)
                    /\ StrLt(req[1].start_time, bookings[i].end_time)]_vars

\* The room was reported available for a window that a cancelled booking of
\* the room and an active booking of another room both intersect.
AvailabilityResultWitness ==
    /\ pc[1] = "done" /\ req[1].op = "availability" /\ req[1].room_id = 1
    /\ Len(bookings) = 2
    /\ bookings[1].room_id = 1 /\ ~Active(bookings[1])
    /\ bookings[2].room_id = 2 /\ Active(bookings[2])
    /\ \A i \in {1, 2} :
        /\ bookings[i].date = req[1].date
        /\ StrLt(bookings[i].start_time, req[1].end_time)
        /\ StrLt(req[1].start_time, bookings[i].end_time)
    /\ resp[1].code = 200 /\ resp[1].available

\* Exactly two digits, ':', two digits, hour in 0..23 and minute in 0..59.
HHMM(t) ==
    /\ Len(t) = 5
    /\ t[3] = 58
    /\ \A i \in {1, 2, 4, 5} : t[i] \in 48..57
    /\ 10 * (t[1] - 48) + (t[2] - 48) <= 23
    /\ 10 * (t[4] - 48) + (t[5] - 48) <= 59

\* The request passes every check its handler makes before the time format:
\* role, existence of the addressed booking or room, presence of the fields.
ReachesFormatCheck(r) ==
    /\ r.date # Empty /\ r.start_time # Empty /\ r.end_time # Empty
    /\ r.op = "create" => r.caller.role = "admin" /\ r.user_id # 0 /\ r.room_id # 0
    /\ r.op = "update" => r.caller.role = "admin" /\ r.booking_id \in DOMAIN bookings
    /\ r.op = "availability" => r.room_id \in rooms

\* C19: in create, update and check-availability a non-empty start_time or
\* end_time that is not two digits, ':', two digits with hour 0..23 and
\* minute 0..59 is answered 400 'invalid time format' and nothing is
\* written; times of that exact form pass the format check.
TimeFormatRejected ==
    [][(Handled /\ req[1].op \in {"create", "update", "availability"}
        /\ ReachesFormatCheck(req[1])) =>
            IF ~HHMM(req[1].start_time) \/ ~HHMM(req[1].end_time)
            THEN /\ resp'[1].code = 400
                 /\ resp'[1].msg = "invalid time format HH:MM"
                 /\ bookings' = bookings
            ELSE /\ resp'[1].msg # "invalid time format HH:MM"
                 /\ resp'[1] # Unhandled]_vars

\* A create whose start_time is '10::0' was answered 500.
TimeFormatRaisesWitness ==
    /\ pc[1] = "done" /\ req[1].op = "create"
    /\ req[1].start_time = T10Colons0 /\ req[1].end_time = T1100
    /\ resp[1] = Unhandled

\* Minutes since midnight of a time the format check accepts.
Minutes(t) == 60 * ToInt(SubSeq(t, 1, 2)) + ToInt(SubSeq(t, 4, 5))

\* C20: create, update and check-availability answer 400 to every request
\* whose end_time is not after its start_time, equal times included, and
\* every booking stored, active or cancelled, starts strictly before it
\* ends.
StartBeforeEnd ==
    [][/\ (Handled /\ req[1].op \in {"create", "update", "availability"}
            /\ ReachesFormatCheck(req[1])
            /\ StrLe(req[1].end_time, req[1].start_time))
                => resp'[1].code = 400 /\ bookings' = bookings
       /\ \A i \in DOMAIN bookings' :
            /\ StrLt(bookings'[i].start_time, bookings'[i].end_time)
            /\ Minutes(bookings'[i].start_time) < Minutes(bookings'[i].end_time)]_vars

\* A create from 23:59 to 12:00 written in fullwidth digits was answered 201
\* and is stored.
EndsBeforeStartWitness ==
    /\ pc[1] = "done" /\ req[1].op = "create" /\ resp[1].code = 201
    /\ bookings[Len(bookings)].start_time = T2359
    /\ bookings[Len(bookings)].end_time = T12Fullwidth

\* C21: every list, create, update or cancel request ends with an outcome
\* its handler defines and never with an unhandled exception, also after
\* the owner or the room of a booking was deleted; a regular caller's
\* cancel of a booking whose owner no longer resolves ends with a mapped
\* error status.
NeverUnhandled ==
    (pc[1] = "done" /\ req[1].op \in {"list_all", "list_user", "create", "update", "cancel"})
        => /\ resp[1] # Unhandled
           /\ resp[1].code \in {200, 201, 400, 401, 403, 404, 409, 500}

\* A regular caller's cancel of a stored booking whose owner row was deleted
\* ended with an unhandled exception; the booking is untouched.
CancelOwnerGoneWitness ==
    /\ pc[1] = "done" /\ req[1].op = "cancel" /\ req[1].caller.role = "regular"
    /\ req[1].booking_id \in DOMAIN bookings
    /\ bookings[req[1].booking_id].user_id \notin users
    /\ Active(bookings[req[1].booking_id])
    /\ resp[1] = Unhandled

\* C22: a successful update of booking B changes only B's date, start_time,
\* end_time and updated_at: B keeps id, user_id, room_id, status and
\* created_at, every other booking is unchanged and none is added or removed.
UpdateFrame ==
    [][(Handled /\ req[1].op = "update" /\ resp'[1].code = 200) =>
        /\ DOMAIN bookings' = DOMAIN bookings
        /\ req[1].booking_id \in DOMAIN bookings
        /\ \A i \in DOMAIN bookings :
            IF i = req[1].booking_id
            THEN /\ bookings'[i].id = bookings[i].id
                 /\ bookings'[i].user_id = bookings[i].user_id
                 /\ bookings'[i].room_id = bookings[i].room_id
                 /\ bookings'[i].status = bookings[i].status
                 /\ bookings'[i].created_at = bookings[i].created_at
            ELSE bookings'[i] = bookings[i]]_vars

\* Booking 2 was moved to another date while booking 1 of the same room
\* stayed on the old one.
UpdateFrameWitness ==
    /\ pc[1] = "done" /\ req[1].op = "update" /\ resp[1].code = 200
    /\ req[1].booking_id = 2 /\ Len(bookings) = 2
    /\ bookings[1].room_id = bookings[2].room_id
    /\ bookings[1].date = D0101 /\ bookings[2].date = D0102
    /\ bookings[2].updated_at > bookings[2].created_at

\* C23: a create, update or cancel answered 400, 401, 403, 404 or 409 leaves
\* the whole store as it was; a request that changes the store reports
\* success and changes it by one write: one row appended or one row
\* rewritten.
FailureChangesNothing ==
    [][(Handled /\ req[1].op \in Mutating) =>
        /\ resp'[1].code \in {400, 401, 403, 404, 409} => bookings' = bookings
        /\ bookings' # bookings =>
            /\ resp'[1].code \in {200, 201}
            /\ \/ /\ Len(bookings') = Len(bookings) + 1
                  /\ SubSeq(bookings', 1, Len(bookings)) = bookings
               \/ /\ Len(bookings') = Len(bookings)
                  /\ Cardinality({i \in DOMAIN bookings :
                                    bookings'[i] # bookings[i]}) = 1]_vars

\* An update onto a window taken by another booking was answered 409 and
\* both bookings are as they were created.
FailureChangesNothingWitness ==
    /\ pc[1] = "done" /\ req[1].op = "update" /\ resp[1].code = 409
    /\ req[1].booking_id = 2 /\ Len(bookings) = 2
    /\ Active(bookings[1]) /\ Active(bookings[2])
    /\ Overlap(bookings[1], [bookings[2] EXCEPT !.date = req[1].date,
                                                !.start_time = req[1].start_time,
                                                !.end_time = req[1].end_time])
    /\ ~Overlap(bookings[1], bookings[2])

\* C24: check-availability, list-all and list-for-user never change the
\* booking store, whatever they answer; an availability answer of true
\* reserves nothing.
QueriesReadOnly ==
    [][\A w \in Workers :
        (pc[w] = "received" /\ pc'[w] = "done" /\ req[w].op \notin Mutating)
            => bookings' = bookings]_vars

\* Client 1 was told the window is available and still holds that answer;
\* meanwhile a booking was created in the window, and client 2's create for
\* the very same window has been rejected with 409.
StaleAvailabilityWitness ==
    /\ pc[1] = "done" /\ req[1].op = "availability"
    /\ resp[1].code = 200 /\ resp[1].available
    /\ pc[2] = "done" /\ req[2].op = "create" /\ resp[2].code = 409
    /\ req[2].room_id = req[1].room_id /\ req[2].date = req[1].date
    /\ req[2].start_time = req[1].start_time /\ req[2].end_time = req[1].end_time
    /\ Taken(bookings, req[1].room_id, req[1].date, req[1].start_time, req[1].end_time)

\* The room a create or update reserves.
RoomOf(r) == IF r.op = "create" THEN r.room_id ELSE bookings[r.booking_id].room_id

\* Some active booking of the room and date ends where the requested window
\* starts, or starts where it ends.
Adjacent(bs, room_id, date, start_time, end_time) ==
    \E i \in DOMAIN bs :
        /\ Active(bs[i]) /\ bs[i].room_id = room_id /\ bs[i].date = date
        /\ bs[i].end_time = start_time \/ bs[i].start_time = end_time

\* C25: a valid create or update whose window starts where an active
\* booking of the same room and date ends, or ends where it starts, is not
\* a conflict: it succeeds when no active booking intersects the window.
BackToBackAllowed ==
    [][(Handled /\ req[1].op \in {"create", "update"} /\ WellFormed(req[1])
        /\ (req[1].op = "create" => MayCreate(req[1]) /\ req[1].user_id \in users)
        /\ (req[1].op = "update" => MayModify(req[1]))
        /\ RoomOf(req[1]) \in rooms
        /\ Adjacent(bookings, RoomOf(req[1]), req[1].date,
                    req[1].start_time, req[1].end_time)
        /\ ~Taken(bookings, RoomOf(req[1]), req[1].date,
                  req[1].start_time, req[1].end_time))
            => IF req[1].op = "create"
               THEN Inserted(req[1])
               ELSE resp'[1].code = 200 /\ Rescheduled(bookings', req[1])]_vars

\* Booking 2 was moved with success to the window that starts where booking
\* 1 of the same room and date ends.
BackToBackWitness ==
    /\ pc[1] = "done" /\ req[1].op = "update" /\ resp[1].code = 200
    /\ req[1].booking_id = 2 /\ Len(bookings) = 2
    /\ Active(bookings[1]) /\ Active(bookings[2])
    /\ bookings[1].room_id = bookings[2].room_id
    /\ bookings[1].date = bookings[2].date
    /\ bookings[1].end_time = bookings[2].start_time

\* C26: an update from any caller with a role, facility_manager and auditor
\* included, that addresses a booking id which is not stored is answered
\* 404: existence is decided before role and ownership.
UpdateExistenceFirst ==
    [][(Handled /\ req[1].op = "update" /\ req[1].caller.role # NoneVal
        /\ req[1].booking_id \notin DOMAIN bookings)
            => resp'[1].code = 404 /\ resp'[1].msg = "booking not found"]_vars

\* A facility manager's update of a booking id that is not stored was
\* answered 403.
UpdateMissingForbiddenWitness ==
    /\ pc[1] = "done" /\ req[1].op = "update" /\ req[1].caller = Manager
    /\ req[1].booking_id \notin DOMAIN bookings
    /\ resp[1].code = 403

\* C27: an authorized, well-formed update of a booking whose room no longer
\* resolves is answered 404 'room not found' and changes nothing; the
\* booking stays stored and is returned by list-all.
UpdateRoomGone ==
    [][(Handled /\ req[1].op = "update" /\ MayModify(req[1]) /\ WellFormed(req[1])
        /\ bookings[req[1].booking_id].room_id \notin rooms)
            => /\ resp'[1].code = 404 /\ resp'[1].msg = "room not found"
               /\ bookings' = bookings
               /\ \A a \in ListAll(Request("list_all", Admin, 0, 0, 0,
                                             Empty, Empty, Empty), bookings') :
                        InRows(a.rows, bookings[req[1].booking_id])]_vars

\* The owner's update of an active booking whose room was deleted was
\* answered 404 'room not found'.
UpdateRoomGoneWitness ==
    /\ pc[1] = "done" /\ req[1].op = "update" /\ req[1].caller.role = "regular"
    /\ req[1].booking_id \in DOMAIN bookings
    /\ Active(bookings[req[1].booking_id])
    /\ bookings[req[1].booking_id].room_id \notin rooms
    /\ bookings[req[1].booking_id].user_id \in users
    /\ resp[1].code = 404 /\ resp[1].msg = "room not found"

\* The ids of the stored bookings.
StoredIds(bs) == {bs[i].id : i \in DOMAIN bs}

\* C28: bookings are never removed and identities are stable: every step
\* keeps every stored id, each id still names a booking of the same user,
\* room and creation time, and no two stored bookings share an id.
IdentitiesStable ==
    [][/\ StoredIds(bookings) \subseteq StoredIds(bookings')
       /\ \A i \in DOMAIN bookings : \E j \in DOMAIN bookings' :
              /\ bookings'[j].id = bookings[i].id
              /\ bookings'[j].user_id = bookings[i].user_id
              /\ bookings'[j].room_id = bookings[i].room_id
              /\ bookings'[j].created_at = bookings[i].created_at
       /\ \A j, k \in DOMAIN bookings' :
              bookings'[j].id = bookings'[k].id => j = k]_vars

\* Booking 1 was cancelled while a second booking is stored: both ids are
\* still there.
IdentitiesStableWitness ==
    /\ pc[1] = "done" /\ req[1].op = "cancel" /\ req[1].booking_id = 1
    /\ resp[1].code = 200 /\ resp[1].msg = "booking cancelled"
    /\ Len(bookings) = 2
    /\ bookings[1].id = 1 /\ bookings[1].status = "cancelled"
    /\ bookings[2].id = 2 /\ Active(bookings[2])

\* The values of min_capacity the modelled queries carry, after int().
MinCapacities == {<<>>, <<10>>}

\* Whatever the caches hold is what the table would return now.
CachesMatchTable ==
    /\ all_rooms_cache.data # NoData
            => all_rooms_cache.data[1] = list_all_rooms(room_table)
    /\ \A m \in MinCapacities :
            availability_cache_key(m) \in DOMAIN available_rooms_cache
                => available_rooms_cache[availability_cache_key(m)].data
                        = search_available_rooms(room_table, m)

\* C29: with one request at a time, a successful create-room, update-room
\* or delete-room leaves both caches empty, so that outside the step from
\* the commit to the invalidation no cache holds a list that differs from
\* the table, and every answered GET /rooms and GET /rooms/available
\* returns exactly the rooms (the available rooms of the query) stored.
WritesInvalidateRoomCache ==
    /\ (pc[1] = "done" /\ req[1].op \in RoomWrites /\ resp[1].code \in {200, 201})
            => /\ all_rooms_cache = EmptyAllRoomsCache
               /\ available_rooms_cache = EmptyAvailableRoomsCache
    /\ pc[1] # "written" => CachesMatchTable
    /\ (pc[1] = "done" /\ req[1].op = "get_all_rooms")
            => resp[1].code = 200 /\ resp[1].data = list_all_rooms(room_table)
    /\ (pc[1] = "done" /\ req[1].op = "get_available_rooms" /\ resp[1].code = 200)
            => resp[1].data = search_available_rooms(room_table, MinCapacity(req[1]))

\* After room C was created and GET /rooms was answered and cached, a
\* GET /rooms/available is answered from the table of three rooms.
WritesInvalidateRoomCacheWitness ==
    /\ pc[1] = "done" /\ req[1].op = "get_available_rooms" /\ resp[1].code = 200
    /\ Cardinality(room_table.rows) = 3
    /\ AllRoomsCached(all_rooms_cache, now)
    /\ all_rooms_cache.data[1] = room_table.rows
    /\ \E r \in resp[1].data : r.name = "C"

\* C30: with two requests in flight, whenever no write stands between its
\* commit and its invalidation, a list that GET /rooms would serve from the
\* cache is the list of the rooms stored.
NoStaleRoomList ==
    (\A w \in Workers : pc[w] # "written")
        => (AllRoomsCached(all_rooms_cache, now)
                => all_rooms_cache.data[1] = list_all_rooms(room_table))

\* Every request has returned and the unexpired all-rooms cache holds a
\* list that is not the stored one.
StaleRoomListWitness ==
    /\ \A w \in Workers : pc[w] = "idle"
    /\ AllRoomsCached(all_rooms_cache, now)
    /\ all_rooms_cache.data[1] # list_all_rooms(room_table)

====
